---- MODULE Spec2Model ----
(***************************************************************************)
(* The persistence and reconciliation layer of the point-of-sale tool:     *)
(* the order ledger (orders, order_items), the sales aggregates (sales),   *)
(* the receipt importer and the maintenance operations, as a state machine *)
(* over the SQLite tables of database.py.  Amounts are integers in cents.  *)
(***************************************************************************)
EXTENDS Integers, Sequences, FiniteSets, TLC

\* ------------------------------------------------------------------ bounds
MaxOrderSeq == 2      \* largest order_id the model lets AUTOINCREMENT hand out
MaxItemRows == 3      \* largest number of rows of order_items
MaxTime == 2          \* largest value of the wall clock
MaxBatch == 2         \* longest list of lines handed to _increment_sales alone
MaxQuantity == 4      \* largest total_quantity a sales row reaches that way
MaxCartQty == 2       \* largest quantity of one item of the cart typed at the prompt

\* Python None / SQL NULL
NULL == "NULL"

\* ------------------------------------------------ text of a receipt file
Digits == {"0", "1", "2", "3", "4", "5", "6", "7", "8", "9"}
\* "P" stands for the peso sign of format_currency and item_re
CurrencySymbols == {"$", "P"}

DigitVal(c) ==
    CASE c = "0" -> 0 [] c = "1" -> 1 [] c = "2" -> 2 [] c = "3" -> 3
      [] c = "4" -> 4 [] c = "5" -> 5 [] c = "6" -> 6 [] c = "7" -> 7
      [] c = "8" -> 8 [] c = "9" -> 9

RECURSIVE DigitsToNat(_)
DigitsToNat(s) ==
    IF s = <<>> THEN 0
    ELSE DigitsToNat(SubSeq(s, 1, Len(s) - 1)) * 10 + DigitVal(s[Len(s)])

AllIn(s, S) == \A i \in 1..Len(s) : s[i] \in S

\* str.replace(c, '') for every c of chars
Remove(s, chars) == SelectSeq(s, LAMBDA c : c \notin chars)

\* index of the first "." of s, 0 when there is none
DotAt(s) ==
    IF \E i \in 1..Len(s) : s[i] = "."
    THEN CHOOSE i \in 1..Len(s) : s[i] = "." /\ \A j \in 1..(i - 1) : s[j] # "."
    ELSE 0

IntPart(s) == IF DotAt(s) = 0 THEN s ELSE SubSeq(s, 1, DotAt(s) - 1)
FracPart(s) == IF DotAt(s) = 0 THEN <<>> ELSE SubSeq(s, DotAt(s) + 1, Len(s))

\* the regular expression [0-9,]+\.?[0-9]* of item_re, anchored
NumberMatches(s) ==
    /\ IntPart(s) # <<>>
    /\ AllIn(IntPart(s), Digits \cup {","})
    /\ AllIn(FracPart(s), Digits)

\* a leading "-" of a decimal text, and the text without it
Negative(s) == s # <<>> /\ s[1] = "-"
Magnitude(s) == IF Negative(s) THEN Tail(s) ELSE s

\* float(s) of a decimal text: it raises ValueError unless s is, after an
\* optional "-", digits with at most one "." and at least one digit
FloatRaises(s) ==
    ~ /\ AllIn(IntPart(Magnitude(s)), Digits)
      /\ AllIn(FracPart(Magnitude(s)), Digits)
      /\ Len(IntPart(Magnitude(s))) + Len(FracPart(Magnitude(s))) >= 1

\* the value of float(s) in cents (texts carry at most two fraction digits)
FloatCents(s) ==
    LET m == Magnitude(s)
        v == DigitsToNat(IntPart(m)) * 100
               + (CASE Len(FracPart(m)) = 0 -> 0
                    [] Len(FracPart(m)) = 1 -> DigitVal(FracPart(m)[1]) * 10
                    [] OTHER -> DigitsToNat(SubSeq(FracPart(m), 1, 2)))
    IN  IF Negative(s) THEN 0 - v ELSE v

\* the lines of a receipt file, by the prefix or shape the importer tests
ItemLine(q, n, c, ps, p, ts, t) ==
    [kind |-> "item", qty |-> q, name |-> n, code |-> c,
     psym |-> ps, price |-> p, tsym |-> ts, total |-> t, text |-> <<>>]
ScalarLine(k, txt) ==
    [kind |-> k, qty |-> <<>>, name |-> "", code |-> "",
     psym |-> "", price |-> <<>>, tsym |-> "", total |-> <<>>, text |-> txt]
EmployeeLine(n) ==
    [kind |-> "Employee:", qty |-> <<>>, name |-> n, code |-> "",
     psym |-> "", price |-> <<>>, tsym |-> "", total |-> <<>>, text |-> <<>>]
OtherLine == ScalarLine("other", <<>>)

\* item_re.match(L)
ItemMatches(L) ==
    /\ L.kind = "item"
    /\ L.qty # <<>> /\ AllIn(L.qty, Digits)
    /\ L.psym \in CurrencySymbols \cup {""}
    /\ L.tsym \in CurrencySymbols \cup {""}
    /\ NumberMatches(L.price)
    /\ NumberMatches(L.total)

\* float(m.group(k).replace(',', '')...) raises for a matched item line
ItemRaises(L) ==
    \/ FloatRaises(Remove(L.price, {","} \cup CurrencySymbols))
    \/ FloatRaises(Remove(L.total, {","} \cup CurrencySymbols))

ParseItem(L) ==
    [code |-> L.code, name |-> L.name, quantity |-> DigitsToNat(L.qty),
     price |-> FloatCents(Remove(L.price, {","} \cup CurrencySymbols)),
     total |-> FloatCents(Remove(L.total, {","} \cup CurrencySymbols))]

\* the first loop over the lines: a ValueError leaves the importer
ParseRaises(lines) ==
    \E i \in 1..Len(lines) : ItemMatches(lines[i]) /\ ItemRaises(lines[i])

RECURSIVE ParseItems(_)
ParseItems(lines) ==
    IF lines = <<>> THEN <<>>
    ELSE (IF ItemMatches(lines[1]) THEN <<ParseItem(lines[1])>> ELSE <<>>)
           \o ParseItems(Tail(lines))

\* employee: the last line that starts with 'Employee:' wins
RECURSIVE ParseEmployee(_, _)
ParseEmployee(lines, employee) ==
    IF lines = <<>> THEN employee
    ELSE ParseEmployee(Tail(lines),
                       IF lines[1].kind = "Employee:" THEN lines[1].name
                       ELSE employee)

TailWindow == 10

\* lines[:]: the whole file
AllLines(lines) == lines
\* lines[-10:]
LastLines(lines) ==
    SubSeq(lines, IF Len(lines) > TailWindow THEN Len(lines) - TailWindow + 1 ELSE 1,
           Len(lines))

\* float(...) of a totals line inside try/except: NULL when it raises
ScalarValue(L) ==
    LET t == Remove(L.text, {","} \cup CurrencySymbols)
    IN  IF FloatRaises(t) THEN [set |-> FALSE, v |-> 0]
        ELSE [set |-> TRUE, v |-> FloatCents(t)]

\* for L in reversed(lines[-10:]): every line with the prefix assigns, so
\* the earliest such line of the window decides
RECURSIVE ScanScalar(_, _, _)
ScanScalar(window, prefix, acc) ==
    IF window = <<>> THEN acc
    ELSE ScanScalar(SubSeq(window, 1, Len(window) - 1), prefix,
                    IF window[Len(window)].kind = prefix
                    THEN ScalarValue(window[Len(window)])
                    ELSE acc)

Unset == [set |-> FALSE, v |-> 0]

RECURSIVE SumTotals(_)
SumTotals(items) ==
    IF items = <<>> THEN 0 ELSE items[1].total + SumTotals(Tail(items))

\* the resolution with a missing Paid resolved to 0, not to the total
ResolvedUnpaid(items, subtotal, paid, change, employee) ==
    LET total_val == IF subtotal.set THEN subtotal.v ELSE SumTotals(items)
        paid_val == IF paid.set THEN paid.v ELSE 0
        change_val == IF change.set THEN change.v ELSE paid_val - total_val
    IN  [items |-> items, total |-> total_val, paid |-> paid_val,
         change |-> change_val, employee |-> employee]

\* total_val, paid_val and change_val: a value the file does not give falls
\* back to the sum of the item totals, to the total, to paid - total
Resolved(items, subtotal, paid, change, employee) ==
    LET total_val == IF subtotal.set THEN subtotal.v ELSE SumTotals(items)
        paid_val == IF paid.set THEN paid.v ELSE total_val
        change_val == IF change.set THEN change.v ELSE paid_val - total_val
    IN  [items |-> items, total |-> total_val, paid |-> paid_val,
         change |-> change_val, employee |-> employee]

\* what the importer hands to save_order for one readable file
ParseReceipt(lines) ==
    Resolved(ParseItems(lines),
             ScanScalar(LastLines(lines), "Subtotal:", Unset),
             ScanScalar(LastLines(lines), "Paid:", Unset),
             ScanScalar(LastLines(lines), "Change:", Unset),
             ParseEmployee(lines, NULL))

\* ------------------------------------------------------------ the store
VARIABLES
    orders,          \* table orders: a set of rows
    order_items,     \* table order_items: its rows in rowid order
    sales,           \* table sales: its rows in rowid order
    seq_orders,      \* sqlite_sequence of orders (AUTOINCREMENT)
    receipt_unique,  \* the schema has UNIQUE on orders.receipt_filename
    receipts,        \* the receipts directory: file name -> kind of content
    now,             \* the wall clock, in seconds
    written,         \* RECEIPTS_DIR of the till: file name -> lines written
    cart,            \* Order.items of the till
    till,            \* the checkout under way: its position and its locals
    importer,        \* an importer run under way: its position and its locals
    issued,          \* history: every order_id a committed order has held
    lastOp           \* the last operation run and what it returned

\* the till and the importer run beside it
procs == <<cart, till, importer>>

vars == <<orders, order_items, sales, seq_orders, receipt_unique, receipts, now,
          written, cart, till, importer, issued, lastOp>>

\* the persisted database a connection sees
DB == [orders |-> orders, order_items |-> order_items, sales |-> sales,
       seq |-> seq_orders, unique |-> receipt_unique]

\* a storage statement or a conversion that raises: <<place, line index>>
NoFault == <<"none", 0>>
Raised(fault, place) == fault[1] = place

\* binary collation of the codes and names of the model
Collation == <<"AR", "Adobo", "Bowl", "SR", "Siomai">>
Rank(s) == CHOOSE i \in 1..Len(Collation) : Collation[i] = s

\* ---------------------------------------------------- _increment_sales
HasCode(rows, code) == \E i \in 1..Len(rows) : rows[i].code = code

\* the loop body with an UPDATE that leaves last_sold alone
UpsertKeepStamp(rows, it, when) ==
    IF HasCode(rows, it.code)
    THEN [i \in 1..Len(rows) |->
            IF rows[i].code = it.code
            THEN [rows[i] EXCEPT !.total_quantity = @ + it.quantity,
                                 !.total_revenue = @ + it.total]
            ELSE rows[i]]
    ELSE Append(rows, [code |-> it.code, name |-> it.name,
                       total_quantity |-> it.quantity,
                       total_revenue |-> it.total, last_sold |-> when])
\* one pass of the loop body: UPDATE when the SELECT finds the code, else INSERT
Upsert(rows, it, when) ==
    IF HasCode(rows, it.code)
    THEN [i \in 1..Len(rows) |->
            IF rows[i].code = it.code
            THEN [rows[i] EXCEPT !.total_quantity = @ + it.quantity,
                                 !.total_revenue = @ + it.total,
                                 !.last_sold = when]
            ELSE rows[i]]
    ELSE Append(rows, [code |-> it.code, name |-> it.name,
                       total_quantity |-> it.quantity,
                       total_revenue |-> it.total, last_sold |-> when])

RECURSIVE IncrementLoopAbort(_, _, _, _, _)
\* the loop with `break` in place of `continue`
IncrementLoopAbort(rows, items, i, when, fault) ==
    IF i > Len(items) \/ fault = <<"sales", i>> THEN rows
    ELSE IncrementLoopAbort(Upsert(rows, items[i], when), items, i + 1, when, fault)
RECURSIVE IncrementLoop(_, _, _, _, _)
\* the loop over the lines; a line whose statement raises is left out
IncrementLoop(rows, items, i, when, fault) ==
    IF i > Len(items) THEN rows
    ELSE IncrementLoop(IF fault = <<"sales", i>> THEN rows
                       ELSE Upsert(rows, items[i], when),
                       items, i + 1, when, fault)

\* the sales table after _increment_sales(items, when); a failing commit
\* leaves the table as it was and the caller swallows the error
increment_sales(rows, items, when, fault) ==
    IF Raised(fault, "sales_commit") THEN rows
    ELSE IncrementLoop(rows, items, 1, when, fault)

\* ------------------------------------------------ save_order, save_receipt
\* INTEGER PRIMARY KEY without AUTOINCREMENT: one more than the largest
\* order_id now in the table
NextOrderIdReuse(db) ==
    IF db.orders = {} THEN 1
    ELSE 1 + (CHOOSE m \in {o.order_id : o \in db.orders} :
                 \A o \in db.orders : o.order_id <= m)
\* AUTOINCREMENT: one more than the largest order_id ever committed
NextOrderId(db) == db.seq + 1

ItemRow(order_id, it) ==
    [order_id |-> order_id, code |-> it.code, name |-> it.name,
     quantity |-> it.quantity, price |-> it.price, total |-> it.total]

RECURSIVE InsertItems(_, _, _, _)
\* the rows after the INSERT of the first n lines of items
InsertItems(rows, order_id, items, n) ==
    IF n = 0 THEN rows
    ELSE Append(InsertItems(rows, order_id, items, n - 1),
                ItemRow(order_id, items[n]))

\* the number of lines inserted before the transaction ends
LinesDone(items, fault) ==
    IF Raised(fault, "item") THEN fault[2] - 1 ELSE Len(items)

\* a connection in autocommit mode: every statement persists at once
PersistedAlways(pre, txn, committed) == txn
\* what a connection leaves in the database file: its transaction when
\* conn.commit() was reached and succeeded, and nothing otherwise
Persisted(pre, txn, committed) == IF committed THEN txn ELSE pre

\* an exception of _increment_sales left to reach the caller of the saver
IncrementPropagatesRaw(fault) == Raised(fault, "sales") \/ Raised(fault, "sales_commit")
\* try: _increment_sales(...) except Exception: pass -- nothing reaches the caller
IncrementPropagates(fault) == FALSE

\* where a saver that returned met a fault of the aggregate update
Stage(fault) ==
    IF Raised(fault, "sales") \/ Raised(fault, "sales_commit") THEN fault[1] ELSE "done"

Holder(db, key) == CHOOSE o \in db.orders : o.receipt_filename = key

\* the INSERT INTO orders violates UNIQUE(receipt_filename)
Conflict(db, key) ==
    db.unique /\ key # NULL /\ \E o \in db.orders : o.receipt_filename = key

\* if receipt_filename is not None
IsNotNone(key) == key # NULL
\* if receipt_filename: neither None nor the empty string
Truthy(key) == key # NULL /\ key # ""

\* save_order(items, total, paid, change, employee, receipt_filename)
save_order(db, a, key, fault, when) ==
    LET conflict == Conflict(db, key)
        resolved == conflict /\ Truthy(key)
        order_id == IF resolved THEN Holder(db, key).order_id ELSE NextOrderId(db)
        row == [order_id |-> order_id, date_time |-> when, total |-> a.total,
                paid |-> a.paid, change |-> a.change, employee |-> a.employee,
                receipt_filename |-> key]
        afterOrder == IF conflict THEN db
                      ELSE [db EXCEPT !.orders = @ \cup {row}, !.seq = order_id]
        txn == [afterOrder EXCEPT
                   !.order_items = InsertItems(@, order_id, a.items,
                                               LinesDone(a.items, fault))]
        failed == \/ Raised(fault, "order")
                  \/ (conflict /\ ~resolved)
                  \/ Raised(fault, "item")
                  \/ Raised(fault, "commit")
        raised == failed \/ IncrementPropagates(fault)
        stored == IF Raised(fault, "order") \/ (conflict /\ ~resolved) THEN db
                  ELSE Persisted(db, txn, ~failed)
    IN  [db |-> IF failed THEN stored
                ELSE [stored EXCEPT
                         !.sales = increment_sales(@, a.items, when, fault)],
         raised |-> raised,
         ret |-> IF raised THEN -1 ELSE order_id,
         dup |-> resolved /\ ~raised,
         stage |-> IF ~failed THEN Stage(fault)
                   ELSE IF conflict /\ ~resolved /\ ~Raised(fault, "order")
                   THEN "conflict" ELSE fault[1]]

\* save_receipt(items, total, paid, change): the older saver, no employee
\* and no receipt_filename
save_receipt(db, a, fault, when) ==
    LET order_id == NextOrderId(db)
        row == [order_id |-> order_id, date_time |-> when, total |-> a.total,
                paid |-> a.paid, change |-> a.change, employee |-> NULL,
                receipt_filename |-> NULL]
        txn == [db EXCEPT
                   !.orders = @ \cup {row}, !.seq = order_id,
                   !.order_items = InsertItems(@, order_id, a.items,
                                               LinesDone(a.items, fault))]
        failed == \/ Raised(fault, "order")
                  \/ Raised(fault, "item")
                  \/ Raised(fault, "commit")
        raised == failed \/ IncrementPropagates(fault)
        stored == IF Raised(fault, "order") THEN db
                  ELSE Persisted(db, txn, ~failed)
    IN  [db |-> IF failed THEN stored
                ELSE [stored EXCEPT
                         !.sales = increment_sales(@, a.items, when, fault)],
         raised |-> raised,
         ret |-> IF raised THEN -1 ELSE order_id,
         dup |-> FALSE,
         stage |-> IF failed THEN fault[1] ELSE Stage(fault)]

\* --------------------------------------------- update_sales_from_orders
\* the (code, name) groups of GROUP BY code, name
Groups(db) ==
    {<<db.order_items[i].code, db.order_items[i].name>> : i \in 1..Len(db.order_items)}

Before(g, h) ==
    \/ Rank(g[1]) < Rank(h[1])
    \/ Rank(g[1]) = Rank(h[1]) /\ Rank(g[2]) < Rank(h[2])

\* the groups in the order the sorter of GROUP BY yields them
RECURSIVE SortedGroups(_)
SortedGroups(S) ==
    IF S = {} THEN <<>>
    ELSE LET m == CHOOSE g \in S : \A h \in S : g = h \/ Before(g, h)
         IN  <<m>> \o SortedGroups(S \ {m})

RECURSIVE GroupSum(_, _, _)
\* SUM(quantity) or SUM(total) over the rows of group g
GroupSum(rows, g, column) ==
    IF rows = <<>> THEN 0
    ELSE (IF rows[1].code = g[1] /\ rows[1].name = g[2]
          THEN (IF column = "quantity" THEN rows[1].quantity ELSE rows[1].total)
          ELSE 0)
           + GroupSum(Tail(rows), g, column)

\* SQL NULL of a date_time column; the clock starts above it
NullTime == 0

\* (SELECT date_time FROM orders WHERE orders.order_id = order_items.order_id)
OrderTime(db, order_id) ==
    IF \E o \in db.orders : o.order_id = order_id
    THEN (CHOOSE o \in db.orders : o.order_id = order_id).date_time
    ELSE NullTime

\* MAX(...) over the rows of one group
GroupLast(db, g) ==
    LET times == {OrderTime(db, db.order_items[i].order_id) :
                    i \in {j \in 1..Len(db.order_items) :
                             /\ db.order_items[j].code = g[1]
                             /\ db.order_items[j].name = g[2]}}
    IN  CHOOSE t \in times : \A u \in times : u <= t

GroupRow(db, g) ==
    [code |-> g[1], name |-> g[2],
     total_quantity |-> GroupSum(db.order_items, g, "quantity"),
     total_revenue |-> GroupSum(db.order_items, g, "total"),
     last_sold |-> GroupLast(db, g)]

\* the INSERT loop: a second row of a code violates the primary key of
\* sales and is skipped
RECURSIVE InsertGroups(_, _, _)
InsertGroups(db, rows, groups) ==
    IF groups = <<>> THEN rows
    ELSE InsertGroups(db,
                      IF HasCode(rows, groups[1][1]) THEN rows
                      ELSE Append(rows, GroupRow(db, groups[1])),
                      Tail(groups))

update_sales_from_orders(db, fault) ==
    LET rows == SortedGroups(Groups(db))
        raised == Raised(fault, "commit")
        txn == [db EXCEPT !.sales = InsertGroups(db, <<>>, rows)]
    IN  [db |-> Persisted(db, txn, ~raised),
         raised |-> raised,
         ret |-> IF raised THEN -1 ELSE Len(rows)]

\* ------------------------------------------- fetch_receipts, fetch_sales
RECURSIVE ByIdAsc(_)
\* ORDER BY order_id
ByIdAsc(S) ==
    IF S = {} THEN <<>>
    ELSE LET m == CHOOSE o \in S : \A p \in S : o.order_id <= p.order_id
         IN  <<m>> \o ByIdAsc(S \ {m})
RECURSIVE ByIdDesc(_)
\* ORDER BY order_id DESC
ByIdDesc(S) ==
    IF S = {} THEN <<>>
    ELSE LET m == CHOOSE o \in S : \A p \in S : p.order_id <= o.order_id
         IN  <<m>> \o ByIdDesc(S \ {m})

\* SELECT code, name, quantity, price, total FROM order_items WHERE order_id = ?
ItemsOf(db, order_id) ==
    LET rows == SelectSeq(db.order_items, LAMBDA r : r.order_id = order_id)
    IN  [i \in 1..Len(rows) |->
           [code |-> rows[i].code, name |-> rows[i].name,
            quantity |-> rows[i].quantity, price |-> rows[i].price,
            total |-> rows[i].total]]

\* fetch_receipts(): the orders, each with its items
fetch_receipts(db) ==
    LET rows == ByIdDesc(db.orders)
    IN  [i \in 1..Len(rows) |->
           [items |-> ItemsOf(db, rows[i].order_id)] @@ rows[i]]

\* SELECT ... FROM sales, without ORDER BY: the rows as they were inserted
InRowidOrder(rows) == rows
RECURSIVE ByRevenueDesc(_)
\* ORDER BY total_revenue DESC; rows of equal revenue as they were inserted
ByRevenueDesc(rows) ==
    IF rows = <<>> THEN <<>>
    ELSE LET top == CHOOSE i \in 1..Len(rows) :
                      /\ \A j \in 1..Len(rows) :
                           rows[j].total_revenue <= rows[i].total_revenue
                      /\ \A j \in 1..(i - 1) :
                           rows[j].total_revenue < rows[i].total_revenue
         IN  <<rows[top]>>
               \o ByRevenueDesc(SubSeq(rows, 1, top - 1)
                                  \o SubSeq(rows, top + 1, Len(rows)))

\* fetch_sales(): the rows of sales
fetch_sales(db) == ByRevenueDesc(db.sales)

\* ------------------------------------------------------- the directory
FileNames == {"a.txt", "b.txt", "notes.md"}
FileKinds == {"absent", "unreadable", "good", "bare", "empty", "comma",
              "long", "twice"}

\* fname.lower().endswith('.txt')
IsTxt(f) == f \in {"a.txt", "b.txt"}

\* os.listdir(receipts_dir), as a set
Listed(dir) == {f \in FileNames : dir[f] # "absent"}

\* the lines of a readable file
Content(kind) ==
    CASE kind = "good" ->
           <<OtherLine, EmployeeLine("bob"), OtherLine, OtherLine,
             ItemLine(<<"2">>, "Adobo", "AR", "P", <<"5", ".", "0", "0">>,
                      "P", <<"1", "0", ".", "0", "0">>),
             OtherLine,
             ScalarLine("Subtotal:", <<"P", "1", "0", ".", "0", "0">>),
             OtherLine, OtherLine,
             ScalarLine("Paid:", <<"P", "1", "5", ".", "0", "0">>),
             ScalarLine("Change:", <<"P", "5", ".", "0", "0">>)>>
      [] kind = "bare" ->
           <<ItemLine(<<"1">>, "Siomai", "SR", "", <<"3">>, "", <<"3">>)>>
      [] kind = "empty" ->
           <<OtherLine, ScalarLine("Subtotal:", <<"5">>)>>
      [] kind = "comma" ->
           <<ItemLine(<<"1">>, "Adobo", "AR", "", <<",">>, "", <<"5">>)>>
      [] kind = "long" ->
           <<ScalarLine("Subtotal:", <<"9">>),
             ItemLine(<<"1">>, "Siomai", "SR", "", <<"3">>, "", <<"3">>),
             OtherLine, OtherLine, OtherLine, OtherLine, OtherLine,
             OtherLine, OtherLine, OtherLine, OtherLine, OtherLine>>
      [] kind = "twice" ->
           <<ItemLine(<<"1">>, "Adobo", "AR", "", <<"5">>, "", <<"5">>),
             ScalarLine("Subtotal:", <<"7">>),
             ScalarLine("Subtotal:", <<"8">>)>>

ReadableKinds == {"good", "bare", "empty", "comma", "long", "twice"}

\* the parse of every file content of the model, computed once
Raises == [k \in ReadableKinds |-> ParseRaises(Content(k))]
Parsed == [k \in ReadableKinds |->
             IF ParseRaises(Content(k)) THEN ParseReceipt(<<>>)
             ELSE ParseReceipt(Content(k))]

\* --------------------------------------------- delete_imported_receipts
\* SELECT order_id FROM orders WHERE receipt_filename IS NOT NULL
MatchingIdsAnyKey(db, filenames) ==
    {o.order_id : o \in {x \in db.orders : x.receipt_filename # NULL}}
\* SELECT order_id FROM orders WHERE receipt_filename IN (filenames)
MatchingIds(db, filenames) ==
    {o.order_id : o \in {x \in db.orders : x.receipt_filename \in filenames}}

\* cur.rowcount read after the DELETE FROM order_items
RowCountOfLines(db, order_ids) ==
    Len(SelectSeq(db.order_items, LAMBDA r : r.order_id \in order_ids))
\* cur.rowcount after the DELETE FROM orders, the last statement executed
RowCount(db, order_ids) ==
    Cardinality({o \in db.orders : o.order_id \in order_ids})

\* the delete with the aggregates recomputed from the lines that remain
delete_and_rebuild(db, dir, fault) ==
    LET filenames == {f \in Listed(dir) : IsTxt(f)}
        order_ids == MatchingIds(db, filenames)
        kept == [db EXCEPT
                    !.order_items = SelectSeq(@, LAMBDA r : r.order_id \notin order_ids),
                    !.orders = {o \in @ : o.order_id \notin order_ids}]
        txn == [kept EXCEPT !.sales = InsertGroups(kept, <<>>, SortedGroups(Groups(kept)))]
        raised == filenames # {} /\ order_ids # {} /\ Raised(fault, "commit")
    IN  IF filenames = {} \/ order_ids = {}
        THEN [db |-> db, raised |-> FALSE, ret |-> 0]
        ELSE [db |-> Persisted(db, txn, ~raised),
              raised |-> raised,
              ret |-> IF raised THEN -1 ELSE RowCount(db, order_ids)]
\* delete_imported_receipts(receipts_dir)
delete_imported_receipts(db, dir, fault) ==
    LET filenames == {f \in Listed(dir) : IsTxt(f)}
        order_ids == MatchingIds(db, filenames)
        txn == [db EXCEPT
                   !.order_items = SelectSeq(@, LAMBDA r : r.order_id \notin order_ids),
                   !.orders = {o \in @ : o.order_id \notin order_ids}]
        raised == filenames # {} /\ order_ids # {} /\ Raised(fault, "commit")
    IN  IF filenames = {} \/ order_ids = {}
        THEN [db |-> db, raised |-> FALSE, ret |-> 0]
        ELSE [db |-> Persisted(db, txn, ~raised),
              raised |-> raised,
              ret |-> IF raised THEN -1 ELSE RowCount(db, order_ids)]

\* ------------------------------------------------------------ db_clear
\* the tables the script empties, in its order
Tables == <<"order_items", "orders", "sales">>

\* SELECT COUNT(*) FROM t
CountOf(db, t) ==
    CASE t = "order_items" -> Len(db.order_items)
      [] t = "orders" -> Cardinality(db.orders)
      [] t = "sales" -> Len(db.sales)

\* what a run of the script leaves beside the database: whether the backup
\* file was written, its content, and the printed (before, after) counts
EmptyDB == [orders |-> {}, order_items |-> <<>>, sales |-> <<>>, seq |-> 0,
            unique |-> TRUE]
NoOut == [backed |-> FALSE, backup |-> EmptyDB,
          results |-> [k \in 1..Len(Tables) |-> <<0, 0>>]]

\* the script going on to the deletes whatever became of the backup
NeverStops(fault) == FALSE
\* the script ends before it connects: the database file is missing
\* (SystemExit) or shutil.copy2 raises
StopsEarly(fault) == Raised(fault, "missing") \/ Raised(fault, "backup")

\* DELETE FROM t and commit, one table after the other; a failing DELETE is
\* reported and the next table follows
db_clear(db, fault) ==
    LET backed == ~Raised(fault, "missing") /\ ~Raised(fault, "backup")
        after == [db EXCEPT
                    !.order_items = IF fault = <<"delete", 1>> THEN @ ELSE <<>>,
                    !.orders = IF fault = <<"delete", 2>> THEN @ ELSE {},
                    !.sales = IF fault = <<"delete", 3>> THEN @ ELSE <<>>]
    IN  IF StopsEarly(fault)
        THEN [db |-> db, raised |-> TRUE, ret |-> -1, out |-> NoOut]
        ELSE [db |-> after, raised |-> FALSE, ret |-> 0,
              out |-> [backed |-> backed,
                       backup |-> IF backed THEN db ELSE EmptyDB,
                       results |-> [k \in 1..Len(Tables) |->
                                      <<CountOf(db, Tables[k]),
                                        CountOf(after, Tables[k])>>]]]

\* ------------------------------------------ import_receipts_from_folder
\* listing: os.listdir in the order it yields; plan[f]: the faults met by
\* save_order and by the save_receipt fallback for file f
\* no file is skipped for want of item lines
SkipsNothing(parsed) == FALSE
\* if not items: continue
SkipsFile(parsed) == parsed.items = <<>>

RECURSIVE ImportLoop(_, _, _, _, _, _)
ImportLoop(db, dir, listing, plan, when, acc) ==
    IF listing = <<>> THEN [db |-> db, raised |-> FALSE, ret |-> acc.imported,
                            failed |-> acc.failed]
    ELSE
      LET fname == listing[1]
          rest == Tail(listing)
      IN  IF ~IsTxt(fname) THEN ImportLoop(db, dir, rest, plan, when, acc)
          ELSE IF \E o \in db.orders : o.receipt_filename = fname
          THEN ImportLoop(db, dir, rest, plan, when, acc)
          ELSE IF dir[fname] = "unreadable"
          THEN ImportLoop(db, dir, rest, plan, when, acc)
          ELSE IF Raises[dir[fname]]
          THEN [db |-> db, raised |-> TRUE, ret |-> -1, failed |-> acc.failed]
          ELSE
            LET parsed == Parsed[dir[fname]]
                first == save_order(db, parsed, fname, plan[fname][1], when)
                second == save_receipt(db, parsed, plan[fname][2], when)
            IN  IF SkipsFile(parsed)
                THEN ImportLoop(db, dir, rest, plan, when, acc)
                ELSE IF ~first.raised
                THEN ImportLoop(first.db, dir, rest, plan, when,
                                [acc EXCEPT !.imported = @ + 1])
                ELSE IF ~second.raised
                THEN ImportLoop(second.db, dir, rest, plan, when,
                                [acc EXCEPT !.imported = @ + 1,
                                            !.failed = @ \cup {fname}])
                ELSE ImportLoop(db, dir, rest, plan, when,
                                [acc EXCEPT !.failed = @ \cup {fname}])

\* the paths handed to the importer: the receipts directory, and a path
\* that names no directory
ReceiptsDir == "receipts"
PathPool == {ReceiptsDir, "nowhere"}

\* os.path.isdir answering yes for every path
IsDirAlways(path) == TRUE
\* os.path.isdir(receipts_dir)
IsDir(path) == path = ReceiptsDir

\* the path is tested first; os.listdir of a path that is no directory raises
import_receipts_from_folder(db, path, dir, listing, plan, when) ==
    IF ~IsDir(path) THEN [db |-> db, raised |-> FALSE, ret |-> 0, failed |-> {}]
    ELSE IF path # ReceiptsDir
    THEN [db |-> db, raised |-> TRUE, ret |-> -1, failed |-> {}]
    ELSE ImportLoop(db, dir, listing, plan, when, [imported |-> 0, failed |-> {}])

\* ------------------------------------------------------------- inputs
\* the orders a caller hands to save_order and save_receipt
ArgPool ==
    {[items |-> <<[code |-> "AR", name |-> "Adobo", quantity |-> 1,
                   price |-> 500, total |-> 500]>>,
      total |-> 500, paid |-> 500, change |-> 0, employee |-> "bob"],
     [items |-> <<[code |-> "AR", name |-> "Bowl", quantity |-> 2,
                   price |-> 500, total |-> 1000],
                  [code |-> "SR", name |-> "Siomai", quantity |-> 1,
                   price |-> 300, total |-> 300]>>,
      total |-> 1300, paid |-> 1500, change |-> 200, employee |-> NULL]}

KeyPool == {NULL, "", "a.txt"}

\* where a call of save_order or save_receipt can raise
SaveFaults(items) ==
    {NoFault, <<"order", 0>>, <<"commit", 0>>}
      \cup {<<"item", k>> : k \in 1..Len(items)}

\* the faults of one file of an importer run: of save_order, of the fallback
ImportFaults ==
    {<<NoFault, NoFault>>,
     <<<<"order", 0>>, NoFault>>, <<<<"order", 0>>, <<"order", 0>>>>,
     <<<<"commit", 0>>, <<"order", 0>>>>}

Dir(a, b) == [f \in FileNames |->
                CASE f = "a.txt" -> a [] f = "b.txt" -> b [] OTHER -> "bare"]

\* the directories of the model; notes.md is a receipt without the extension
DirPool == {Dir("good", "bare"), Dir("comma", "good"), Dir("empty", "unreadable"),
            Dir("long", "twice")}

\* the orders in which os.listdir can yield the names of S
Listings ==
    [S \in SUBSET FileNames |->
       {l \in [1..Cardinality(S) -> S] :
          \A i, j \in 1..Cardinality(S) : l[i] = l[j] => i = j}]

\* the files of dir for which the importer reaches save_order
Attempted(db, dir) ==
    {f \in Listed(dir) :
       /\ IsTxt(f)
       /\ ~\E o \in db.orders : o.receipt_filename = f
       /\ dir[f] \in ReadableKinds
       /\ ~Raises[dir[f]]
       /\ Parsed[dir[f]].items # <<>>}

\* a fault plan names faults for the files that reach save_order only
Plans(db, dir) ==
    {[f \in FileNames |-> IF f \in Attempted(db, dir) THEN p[f] ELSE <<NoFault, NoFault>>] :
       p \in [Attempted(db, dir) -> ImportFaults]}

WithinBounds(db) ==
    db.seq <= MaxOrderSeq /\ Len(db.order_items) <= MaxItemRows

\* the cart, paid and change a checkout worked on; empty for the other
\* operations
NoArgs == [items |-> <<>>, total |-> 0, paid |-> 0, change |-> 0]

Result(name, r) ==
    [name |-> name, ret |-> r.ret, raised |-> r.raised, dup |-> r.dup,
     stage |-> r.stage, failed |-> r.failed, key |-> r.key, out |-> NoOut,
     args |-> NoArgs]

Plain(r) == [dup |-> FALSE, stage |-> IF r.raised THEN "commit" ELSE "done",
             failed |-> {}, key |-> NULL] @@ r

Store(db) ==
    /\ orders' = db.orders
    /\ order_items' = db.order_items
    /\ sales' = db.sales
    /\ seq_orders' = db.seq
    /\ issued' = issued \cup {o.order_id : o \in db.orders}

\* ------------------------------------------------- the till (system.py)
\* three entries of MENU, prices in cents
MENU ==
    <<[code |-> "AR", name |-> "Adobo Rice Bowl", price |-> 6500],
      [code |-> "R", name |-> "Rice", price |-> 2000],
      [code |-> "SM", name |-> "Siomai (4pcs)", price |-> 2500]>>

\* LOOKUP: code -> (name, price)
InLookup(code) == \E i \in 1..Len(MENU) : MENU[i].code = code
LOOKUP(code) == MENU[CHOOSE i \in 1..Len(MENU) : MENU[i].code = code]

\* Order.add(code, name, price, qty)
OrderAdd(items, code, name, price, qty) ==
    IF \E i \in 1..Len(items) : items[i].code = code
    THEN LET at == CHOOSE i \in 1..Len(items) :
                     /\ items[i].code = code
                     /\ \A j \in 1..(i - 1) : items[j].code # code
         IN  [items EXCEPT ![at].qty = @ + qty]
    ELSE Append(items, [code |-> code, name |-> name, price |-> price, qty |-> qty])

\* int(parts[2]) if len(parts) > 2 and parts[2].isdigit() else 1
AddQty(arg) == IF arg # <<>> /\ AllIn(arg, Digits) THEN DigitsToNat(arg) ELSE 1

\* the command `add <code> [qty]`
Add(items, cmd) ==
    IF InLookup(cmd.code)
    THEN OrderAdd(items, cmd.code, LOOKUP(cmd.code).name, LOOKUP(cmd.code).price,
                  AddQty(cmd.qty))
    ELSE items

RECURSIVE RunAdds(_, _)
RunAdds(items, cmds) ==
    IF cmds = <<>> THEN items ELSE RunAdds(Add(items, cmds[1]), Tail(cmds))

\* Order.as_lines(): (code, name, qty, price, price * qty)
RECURSIVE as_lines(_)
as_lines(items) ==
    IF items = <<>> THEN <<>>
    ELSE <<[code |-> items[1].code, name |-> items[1].name,
            quantity |-> items[1].qty, price |-> items[1].price,
            total |-> items[1].price * items[1].qty]>> \o as_lines(Tail(items))

\* Order.subtotal()
RECURSIVE subtotal(_)
subtotal(items) ==
    IF items = <<>> THEN 0
    ELSE items[1].price * items[1].qty + subtotal(Tail(items))

DigitChar(d) == CHOOSE c \in Digits : DigitVal(c) = d

\* str(n) of a natural number
RECURSIVE NatToDigits(_)
NatToDigits(n) ==
    IF n < 10 THEN <<DigitChar(n)>>
    ELSE NatToDigits(n \div 10) \o <<DigitChar(n % 10)>>

\* the "," option of the format: a comma before every group of three digits
RECURSIVE Grouped(_)
Grouped(ds) ==
    IF Len(ds) <= 3 THEN ds
    ELSE Grouped(SubSeq(ds, 1, Len(ds) - 3)) \o <<",">>
           \o SubSeq(ds, Len(ds) - 2, Len(ds))

Abs(v) == IF v < 0 THEN 0 - v ELSE v

\* the format {v:,.0f}: the amount rounded to whole pesos
format_whole(v) ==
    <<"P">> \o (IF v < 0 THEN <<"-">> ELSE <<>>)
            \o Grouped(NatToDigits((Abs(v) + 50) \div 100))
\* format_currency(v): the peso sign and {v:,.2f}, v in cents
format_currency(v) ==
    <<"P">> \o (IF v < 0 THEN <<"-">> ELSE <<>>)
            \o Grouped(NatToDigits(Abs(v) \div 100))
            \o <<".", DigitChar((Abs(v) % 100) \div 10), DigitChar(Abs(v) % 10)>>

\* the item lines save_receipt writes: the names and codes stand as written
RECURSIVE RenderItems(_)
RenderItems(lines) ==
    IF lines = <<>> THEN <<>>
    ELSE <<ItemLine(NatToDigits(lines[1].quantity), lines[1].name, lines[1].code,
                    Head(format_currency(lines[1].price)),
                    Tail(format_currency(lines[1].price)),
                    Head(format_currency(lines[1].total)),
                    Tail(format_currency(lines[1].total)))>>
           \o RenderItems(Tail(lines))

\* save_receipt(order, paid, change, employee_name): header, employee,
\* timestamp, blank, the item lines, blank, Subtotal, Tax, Total, Paid, Change
RenderReceipt(items, paid, change, employee) ==
    <<OtherLine, EmployeeLine(employee), OtherLine, OtherLine>>
      \o RenderItems(as_lines(items))
      \o <<OtherLine,
            ScalarLine("Subtotal:", format_currency(subtotal(items))),
            ScalarLine("Tax:", format_currency(0)),
            ScalarLine("Total:", format_currency(subtotal(items) + 0)),
            ScalarLine("Paid:", format_currency(paid)),
            ScalarLine("Change:", format_currency(change))>>

\* receipt_<now>.txt, one name for each second of the clock
ReceiptNames == <<"receipt_1.txt", "receipt_2.txt", "receipt_3.txt", "receipt_4.txt">>
ReceiptName(t) == ReceiptNames[t]

\* open(fname, 'w'): the file is created or replaces the file of that name
WriteFile(files, fname, lines) ==
    [n \in DOMAIN files \cup {fname} |-> IF n = fname THEN lines ELSE files[n]]

\* the carts of the model, as the add commands that build them, and the
\* amounts typed at 'Paid amount:'
CartPool ==
    {<<[code |-> "AR", qty |-> <<"2">>]>>,
     <<[code |-> "AR", qty |-> <<"2", "0">>], [code |-> "R", qty |-> <<>>]>>,
     <<[code |-> "AR", qty |-> <<"0">>]>>,
     <<[code |-> "SM", qty |-> <<"1">>], [code |-> "ZZ", qty |-> <<"5">>],
       [code |-> "SM", qty |-> <<"-", "1">>]>>}
TenderPool == {15000, 10025}

\* CashierGUI._add_by_code(code, qty): the quantity is an integer already
add_by_code(items, code, q) ==
    IF InLookup(code)
    THEN OrderAdd(items, code, LOOKUP(code).name, LOOKUP(code).price, q)
    ELSE items

RECURSIVE RunClicks(_, _)
RunClicks(items, clicks) ==
    IF clicks = <<>> THEN items
    ELSE RunClicks(add_by_code(items, clicks[1].code, clicks[1].q), Tail(clicks))

\* the carts of the window, as the clicks that build them
ClickPool ==
    {<<[code |-> "AR", q |-> 2]>>,
     <<[code |-> "SM", q |-> 1], [code |-> "R", q |-> 3]>>}

\* the two savers of CashierGUI._checkout: save_order, and save_receipt when
\* save_order raised; an error of both is swallowed
TrySavers(db, first, second) ==
    IF ~first.raised THEN first
    ELSE IF ~second.raised THEN [second EXCEPT !.stage = "fallback"]
    ELSE [db |-> db, raised |-> TRUE, ret |-> -1, dup |-> FALSE, stage |-> "lost"]

\* ---------------------------------------------------------- the machine
\* the till between two checkouts, and the importer between two runs
NoOrder == [items |-> <<>>, total |-> 0, paid |-> 0, change |-> 0, employee |-> NULL]
Idle == [pc |-> "idle", fname |-> "", order |-> NoOrder]
Resting == [pc |-> "idle", listing |-> <<>>, order |-> NoOrder, imported |-> 0]

NoOp == [name |-> "init", ret |-> 0, raised |-> FALSE, dup |-> FALSE,
         stage |-> "done", failed |-> {}, key |-> NULL, out |-> NoOut,
         args |-> NoArgs]

\* a store just created by create_tables (UNIQUE on receipt_filename) or one
\* migrated from the older schema (the column added without UNIQUE)
Init ==
    /\ orders = {}
    /\ order_items = <<>>
    /\ sales = <<>>
    /\ seq_orders = 0
    /\ issued = {}
    /\ receipt_unique \in BOOLEAN
    /\ receipts \in DirPool
    /\ receipt_unique \/ receipts = Dir("good", "bare")
    /\ now = 1
    /\ written = <<>>
    /\ cart = <<>>
    /\ till = Idle
    /\ importer = Resting
    /\ lastOp = NoOp

\* a store just created, beside one directory of receipts
InitFresh ==
    /\ Init
    /\ receipt_unique
    /\ receipts = Dir("good", "bare")

\* faulty: storage statements and conversions may raise
SaveOrder(faulty) ==
    \E a \in ArgPool, key \in KeyPool :
      \E fault \in IF faulty THEN SaveFaults(a.items) ELSE {NoFault} :
        LET r == save_order(DB, a, key, fault, now)
        IN  /\ WithinBounds(r.db)
            /\ Store(r.db)
            /\ lastOp' = Result("save_order", [failed |-> {}, key |-> key] @@ r)
            /\ UNCHANGED <<receipt_unique, receipts, now, written, procs>>

SaveReceipt(faulty) ==
    \E a \in ArgPool :
      \E fault \in IF faulty THEN SaveFaults(a.items) ELSE {NoFault} :
        LET r == save_receipt(DB, a, fault, now)
        IN  /\ WithinBounds(r.db)
            /\ Store(r.db)
            /\ lastOp' = Result("save_receipt", [failed |-> {}, key |-> NULL] @@ r)
            /\ UNCHANGED <<receipt_unique, receipts, now, written, procs>>

NoPlan == [f \in FileNames |-> <<NoFault, NoFault>>]

\* a run over the receipts directory is recorded as "import", a run over a
\* path that names no directory as "import_nodir"
Import(faulty) ==
    \/ \E listing \in Listings[Listed(receipts)] :
         \E plan \in IF faulty THEN Plans(DB, receipts) ELSE {NoPlan} :
           LET r == import_receipts_from_folder(DB, ReceiptsDir, receipts, listing,
                                                plan, now)
           IN  /\ WithinBounds(r.db)
               /\ Store(r.db)
               /\ lastOp' = Result("import",
                                   [dup |-> FALSE, key |-> NULL,
                                    stage |-> IF r.raised THEN "parse" ELSE "done"] @@ r)
               /\ UNCHANGED <<receipt_unique, receipts, now, written, procs>>
    \/ \E path \in PathPool \ {ReceiptsDir} :
         LET r == import_receipts_from_folder(DB, path, receipts, <<>>, NoPlan, now)
         IN  /\ Store(r.db)
             /\ lastOp' = Result("import_nodir",
                                 [dup |-> FALSE, key |-> NULL,
                                  stage |-> IF r.raised THEN "listdir" ELSE "isdir"] @@ r)
             /\ UNCHANGED <<receipt_unique, receipts, now, written, procs>>

Delete(faulty) ==
    \E fault \in IF faulty THEN {NoFault, <<"commit", 0>>} ELSE {NoFault} :
      LET r == delete_imported_receipts(DB, receipts, fault)
      IN  /\ Store(r.db)
          /\ lastOp' = Result("delete", Plain(r))
          /\ UNCHANGED <<receipt_unique, receipts, now, written, procs>>

Rebuild(faulty) ==
    \E fault \in IF faulty THEN {NoFault, <<"commit", 0>>} ELSE {NoFault} :
      LET r == update_sales_from_orders(DB, fault)
      IN  /\ Store(r.db)
          /\ lastOp' = Result("rebuild", Plain(r))
          /\ UNCHANGED <<receipt_unique, receipts, now, written, procs>>

Purge(faulty) ==
    \E fault \in IF faulty
                 THEN {NoFault, <<"missing", 0>>, <<"backup", 0>>, <<"delete", 1>>}
                 ELSE {NoFault} :
      LET r == db_clear(DB, fault)
      IN  /\ Store(r.db)
          /\ lastOp' = [Result("purge",
                               [dup |-> FALSE, failed |-> {}, key |-> NULL,
                                stage |-> IF r.raised THEN fault[1] ELSE "done"] @@ r)
                          EXCEPT !.out = r.out]
          /\ UNCHANGED <<receipt_unique, receipts, now, written, procs>>

\* where the aggregate update of a saver can fail: at one line, at its commit
SalesFaults(items) ==
    {<<"sales_commit", 0>>} \cup {<<"sales", k>> : k \in 1..Len(items)}

\* save_order whose _increment_sales may meet a fault
SaveOrderSales ==
    \E a \in ArgPool, key \in KeyPool :
      \E fault \in {NoFault} \cup SalesFaults(a.items) :
        LET r == save_order(DB, a, key, fault, now)
        IN  /\ WithinBounds(r.db)
            /\ Store(r.db)
            /\ lastOp' = Result("save_order", [failed |-> {}, key |-> key] @@ r)
            /\ UNCHANGED <<receipt_unique, receipts, now, written, procs>>

\* save_receipt whose _increment_sales may meet a fault
SaveReceiptSales ==
    \E a \in ArgPool :
      \E fault \in {NoFault} \cup SalesFaults(a.items) :
        LET r == save_receipt(DB, a, fault, now)
        IN  /\ WithinBounds(r.db)
            /\ Store(r.db)
            /\ lastOp' = Result("save_receipt", [failed |-> {}, key |-> NULL] @@ r)
            /\ UNCHANGED <<receipt_unique, receipts, now, written, procs>>

\* the lines of the orders of the model
LinePool == UNION {{a.items[i] : i \in 1..Len(a.items)} : a \in ArgPool}

\* the lists of lines handed to _increment_sales
Batches == UNION {[1..n -> LinePool] : n \in 1..MaxBatch}

\* _increment_sales(items, when) called on its own
Increment(faulty) ==
    \E lines \in Batches :
      \E fault \in IF faulty THEN {NoFault} \cup SalesFaults(lines) ELSE {NoFault} :
        LET rows == increment_sales(sales, lines, now, fault)
        IN  /\ \A i \in 1..Len(rows) : rows[i].total_quantity <= MaxQuantity
            /\ sales' = rows
            /\ lastOp' = [NoOp EXCEPT !.name = "increment", !.stage = Stage(fault),
                                      !.ret = Len(lines)]
            /\ UNCHANGED <<orders, order_items, seq_orders, receipt_unique,
                           receipts, now, issued, written, procs>>

\* the checkout command of cli_main: the receipt is written, then save_order
\* is called with the name of the file as key; what it raises is dropped
Checkout ==
    \E cmds \in CartPool, paid \in TenderPool :
      LET items == RunAdds(<<>>, cmds)
          change == paid - subtotal(items)
          fname == ReceiptName(now)
          a == [items |-> as_lines(items), total |-> subtotal(items), paid |-> paid,
                change |-> change, employee |-> "Kit"]
          r == save_order(DB, a, fname, NoFault, now)
      IN  /\ items # <<>>
          /\ WithinBounds(r.db)
          /\ Store(r.db)
          /\ written' = WriteFile(written, fname,
                                  RenderReceipt(items, paid, change, "Kit"))
          /\ lastOp' = [Result("checkout", [failed |-> {}, key |-> fname] @@ r)
                          EXCEPT !.args = [items |-> a.items, total |-> a.total,
                                           paid |-> paid, change |-> change]]
          /\ UNCHANGED <<receipt_unique, receipts, now, procs>>

\* CashierGUI._checkout: the receipt file, then the savers; a store fault of
\* save_order and of the fallback as in the importer
GuiDone(fname, a, r) ==
    /\ WithinBounds(r.db)
    /\ Store(r.db)
    /\ lastOp' = [Result("gui_checkout", [failed |-> {}, key |-> fname] @@ r)
                    EXCEPT !.args = [items |-> a.items, total |-> a.total,
                                     paid |-> a.paid, change |-> a.change]]

GuiCheckout(faulty) ==
    \E clicks \in ClickPool, paid \in TenderPool :
      \E plan \in IF faulty THEN ImportFaults ELSE {<<NoFault, NoFault>>} :
        LET items == RunClicks(<<>>, clicks)
            change == paid - subtotal(items)
            fname == ReceiptName(now)
            a == [items |-> as_lines(items), total |-> subtotal(items), paid |-> paid,
                  change |-> change, employee |-> "Kit"]
        IN  /\ items # <<>>
            /\ GuiDone(fname, a, TrySavers(DB, save_order(DB, a, fname, plan[1], now),
                                           save_receipt(DB, a, plan[2], now)))
            /\ written' = WriteFile(written, fname,
                                    RenderReceipt(items, paid, change, "Kit"))
            /\ UNCHANGED <<receipt_unique, receipts, now, procs>>

\* ----------------------------------------- the till, one step at a time
\* Order.remove_index(idx)
remove_index(items, idx) ==
    IF 0 <= idx /\ idx < Len(items)
    THEN [i \in 1..(Len(items) - 1) |-> IF i <= idx THEN items[i] ELSE items[i + 1]]
    ELSE items

\* the commands of cli_main on the cart; the loop reads one command at a time
AddArgs == {<<>>, <<"2">>}
AddCodes == {"AR", "SM", "ZZ"}

\* lastOp keeps the command: its code in key, its number in ret
CartStep(name, code, n, items) ==
    /\ till.pc = "idle"
    /\ \A i \in 1..Len(items) : items[i].qty <= MaxCartQty
    /\ cart' = items
    /\ lastOp' = [NoOp EXCEPT !.name = name, !.key = code, !.ret = n]
    /\ UNCHANGED <<orders, order_items, sales, seq_orders, receipt_unique,
                   receipts, now, written, till, importer, issued>>

CartAdd == \E code \in AddCodes, arg \in AddArgs :
             CartStep("add", code, AddQty(arg), Add(cart, [code |-> code, qty |-> arg]))
CartRemove == \E idx \in 0..MaxItemRows :
                CartStep("remove", NULL, idx, remove_index(cart, idx))
CartClear == CartStep("clear", NULL, 0, <<>>)

\* checkout: the lines are captured and save_receipt opens the file
\* the amount typed at the 'Paid amount:' prompt
TillTenders == {15000}

TillOpen ==
    \E paid \in TillTenders :
      /\ till.pc = "idle"
      /\ cart # <<>>
      /\ till' = [pc |-> "open", fname |-> ReceiptName(now),
                  order |-> [items |-> as_lines(cart), total |-> subtotal(cart),
                             paid |-> paid, change |-> paid - subtotal(cart),
                             employee |-> "Kit"]]
      /\ written' = WriteFile(written, ReceiptName(now), <<>>)
      /\ UNCHANGED <<orders, order_items, sales, seq_orders, receipt_unique,
                     receipts, now, cart, importer, issued, lastOp>>

\* the lines of the receipt reach the file when it is closed
TillWrite ==
    /\ till.pc = "open"
    /\ till' = [till EXCEPT !.pc = "written"]
    /\ written' = WriteFile(written, till.fname,
                            RenderReceipt(cart, till.order.paid, till.order.change,
                                          "Kit"))
    /\ UNCHANGED <<orders, order_items, sales, seq_orders, receipt_unique,
                   receipts, now, cart, importer, issued, lastOp>>

TillSaved(r) ==
    /\ WithinBounds(r.db)
    /\ Store(r.db)
    /\ lastOp' = [Result("till", [failed |-> {}, key |-> till.fname] @@ r)
                    EXCEPT !.args = [items |-> till.order.items,
                                     total |-> till.order.total,
                                     paid |-> till.order.paid,
                                     change |-> till.order.change]]

\* save_order keyed by the name of the file, then order.clear()
TillSave ==
    /\ till.pc = "written"
    /\ TillSaved(save_order(DB, till.order, till.fname, NoFault, now))
    /\ cart' = <<>>
    /\ till' = [till EXCEPT !.pc = "idle"]
    /\ UNCHANGED <<receipt_unique, receipts, now, written, importer>>

\* ------------------------------------- the importer, one step at a time
\* the orders in which os.listdir can yield the names of S
RECURSIVE Orderings(_)
Orderings(S) ==
    IF S = {} THEN {<<>>}
    ELSE UNION {{<<f>> \o l : l \in Orderings(S \ {f})} : f \in S}

\* os.listdir(receipts_dir): every receipt name ends with .txt
ImpList ==
    \E listing \in Orderings(DOMAIN written) :
      /\ importer.pc = "idle"
      /\ importer' = [Resting EXCEPT !.pc = "loop", !.listing = listing]
      /\ UNCHANGED <<orders, order_items, sales, seq_orders, receipt_unique,
                     receipts, now, written, cart, till, issued, lastOp>>

\* SELECT COUNT(1) FROM orders WHERE receipt_filename = ?
ImpCheck ==
    /\ importer.pc = "loop"
    /\ importer.listing # <<>>
    /\ importer' = IF \E o \in orders : o.receipt_filename = Head(importer.listing)
                   THEN [importer EXCEPT !.listing = Tail(@)]
                   ELSE [importer EXCEPT !.pc = "read"]
    /\ UNCHANGED <<orders, order_items, sales, seq_orders, receipt_unique,
                   receipts, now, written, cart, till, issued, lastOp>>

\* the file read and parsed: a ValueError ends the run, a file without item
\* lines is passed over
ImpParsed(raises, parsed) ==
    /\ importer' = IF raises THEN Resting
                   ELSE IF SkipsFile(parsed)
                   THEN [importer EXCEPT !.pc = "loop", !.listing = Tail(@)]
                   ELSE [importer EXCEPT !.pc = "save", !.order = parsed]
    /\ lastOp' = IF raises
                 THEN [NoOp EXCEPT !.name = "import_run", !.raised = TRUE,
                                   !.ret = -1, !.stage = "parse"]
                 ELSE lastOp

ImpRead ==
    /\ importer.pc = "read"
    /\ ImpParsed(ParseRaises(written[Head(importer.listing)]),
                 ParseReceipt(written[Head(importer.listing)]))
    /\ UNCHANGED <<orders, order_items, sales, seq_orders, receipt_unique,
                   receipts, now, written, cart, till, issued>>

ImpSaved(r) ==
    /\ WithinBounds(r.db)
    /\ Store(r.db)
    /\ importer' = [importer EXCEPT !.pc = "loop", !.listing = Tail(@),
                                    !.order = NoOrder,
                                    !.imported = IF r.raised THEN @ ELSE @ + 1]

\* save_order keyed by the file name, save_receipt when it raises
ImpSave ==
    /\ importer.pc = "save"
    /\ ImpSaved(TrySavers(DB,
                          save_order(DB, importer.order, Head(importer.listing),
                                     NoFault, now),
                          save_receipt(DB, importer.order, NoFault, now)))
    /\ UNCHANGED <<receipt_unique, receipts, now, written, cart, till, lastOp>>

\* return imported
ImpReturn ==
    /\ importer.pc = "loop"
    /\ importer.listing = <<>>
    /\ importer' = Resting
    /\ lastOp' = [NoOp EXCEPT !.name = "import_run", !.ret = importer.imported]
    /\ UNCHANGED <<orders, order_items, sales, seq_orders, receipt_unique,
                   receipts, now, written, cart, till, issued>>

Tick ==
    /\ now < MaxTime
    /\ now' = now + 1
    /\ UNCHANGED <<orders, order_items, sales, seq_orders, receipt_unique,
                   receipts, issued, written, procs, lastOp>>

\* the operations, every storage statement succeeding
Next ==
    \/ SaveOrder(FALSE)
    \/ SaveReceipt(FALSE)
    \/ Import(FALSE)
    \/ Delete(FALSE)
    \/ Rebuild(FALSE)
    \/ Purge(FALSE)

\* the operations, the importer's savers meeting storage faults
NextImportFaults ==
    \/ SaveOrder(FALSE)
    \/ SaveReceipt(FALSE)
    \/ Import(TRUE)
    \/ Delete(FALSE)
    \/ Rebuild(FALSE)
    \/ Purge(FALSE)

\* a fresh store whose importer meets storage faults
SpecImportFaults == InitFresh /\ [][NextImportFaults]_vars

\* the operations, with storage faults
NextFaults ==
    \/ SaveOrder(TRUE)
    \/ SaveReceipt(TRUE)
    \/ Import(FALSE)
    \/ Delete(TRUE)
    \/ Rebuild(TRUE)
    \/ Purge(TRUE)

\* the till: checkouts as the clock goes on
NextCheckout ==
    \/ Checkout
    \/ Tick

SpecCheckout == InitFresh /\ [][NextCheckout]_vars

\* the window of the till, its savers meeting storage faults
NextGuiCheckout ==
    \/ GuiCheckout(TRUE)
    \/ Tick

SpecGuiCheckout == InitFresh /\ [][NextGuiCheckout]_vars

\* a till with a filled cart
InitRace ==
    /\ orders = {}
    /\ order_items = <<>>
    /\ sales = <<>>
    /\ seq_orders = 0
    /\ issued = {}
    /\ receipt_unique = TRUE
    /\ receipts = Dir("good", "bare")
    /\ now = 1
    /\ written = <<>>
    /\ cart \in {RunAdds(<<>>, cmds) : cmds \in CartPool}
    /\ till = Idle
    /\ importer = Resting
    /\ lastOp = NoOp

\* one checkout of the till beside importer runs over the same directory
NextRace ==
    \/ TillOpen
    \/ TillWrite
    \/ TillSave
    \/ ImpList
    \/ ImpCheck
    \/ ImpRead
    \/ ImpSave
    \/ ImpReturn
    \/ Tick

SpecRace == InitRace /\ [][NextRace]_vars

\* the commands of the till: the cart, and checkouts of it
NextCart ==
    \/ CartAdd
    \/ CartRemove
    \/ CartClear
    \/ TillOpen
    \/ TillWrite
    \/ TillSave
    \/ Tick

SpecCart == InitFresh /\ [][NextCart]_vars

\* the operations, the aggregate update of the savers meeting faults
NextSalesFaults ==
    \/ SaveOrderSales
    \/ SaveReceiptSales
    \/ Import(FALSE)
    \/ Delete(FALSE)
    \/ Rebuild(FALSE)
    \/ Purge(FALSE)

\* a fresh store whose aggregate updates may fail
SpecSalesFaults == InitFresh /\ [][NextSalesFaults]_vars

\* _increment_sales alone as the clock advances
NextIncrement ==
    \/ Increment(FALSE)
    \/ Tick

SpecIncrement == InitFresh /\ [][NextIncrement]_vars

\* _increment_sales alone, its statements meeting faults
NextIncrementFaults ==
    \/ Increment(TRUE)
    \/ Tick

SpecIncrementFaults == InitFresh /\ [][NextIncrementFaults]_vars

\* save_order and the rebuild of the aggregates on a fresh store, no delete
\* and no purge
NextLedger ==
    \/ SaveOrder(FALSE)
    \/ Rebuild(FALSE)
    \/ Tick

SpecLedger == InitFresh /\ [][NextLedger]_vars

\* every store and directory of the model, no storage fault
Spec == Init /\ [][Next]_vars

\* a fresh store on which storage statements may fail
SpecFaults == InitFresh /\ [][NextFaults]_vars

\* the fault-free operations as the clock advances
SpecTimed == InitFresh /\ [][Next \/ Tick]_vars

\* ---------------------------------------------------------- properties
\* the step just taken ran this operation
Ran(name) == lastOp'.name = name

\* some order holds key k
Held(k) == \E o \in orders : o.receipt_filename = k

\* C1: an import run that directly follows an import run on the same
\* directory, its save_order calls failing for the same files as in the first
\* run (for none, or for some), leaves the orders and their lines as the
\* first run left them and returns 0
C1_SecondImportIsNoOp ==
    [][(/\ lastOp.name = "import" /\ ~lastOp.raised
        /\ Ran("import") /\ ~lastOp'.raised
        /\ lastOp'.failed = lastOp.failed)
         => /\ orders' = orders
            /\ order_items' = order_items
            /\ lastOp'.ret = 0]_vars

\* C2: a save_order call made with a key that an order already holds, and
\* meeting no storage fault, returns the order_id of that order, and
\* afterwards exactly one order holds the key
C2_SameKeySameOrder ==
    [][(Ran("save_order") /\ lastOp'.key # NULL /\ Held(lastOp'.key)
          /\ lastOp'.stage \in {"done", "conflict"})
         => /\ ~lastOp'.raised
            /\ lastOp'.ret = Holder(DB, lastOp'.key).order_id
            /\ Cardinality({o \in orders' : o.receipt_filename = lastOp'.key}) = 1]_vars

\* C3: a save_order call made with a key that an order already holds adds no
\* order and leaves every order and every order line as it was
C3_HeldKeyChangesNothing ==
    [][(Ran("save_order") /\ lastOp'.key # NULL /\ Held(lastOp'.key))
         => /\ orders' = orders
            /\ order_items' = order_items]_vars

\* C4: a save_order or save_receipt call that raises leaves neither its order
\* row nor any of its lines in the ledger; one that returns leaves the order
\* of the returned id and every one of its lines
C4_RecordOrderAtomic ==
    [][(Ran("save_order") \/ Ran("save_receipt"))
         => IF lastOp'.raised
            THEN /\ orders' = orders
                 /\ order_items' = order_items
            ELSE /\ \E o \in orders' : o.order_id = lastOp'.ret
                 /\ \E a \in ArgPool :
                      order_items' = InsertItems(order_items, lastOp'.ret,
                                                 a.items, Len(a.items))]_vars

\* a call has raised after its order row was written, at a line or at the commit
C4_Witness ==
    /\ lastOp.name \in {"save_order", "save_receipt"}
    /\ lastOp.raised
    /\ lastOp.stage \in {"item", "commit"}
    /\ orders # {}

\* the product codes of the lines of the model
ProductCodes == {"AR", "SR"}

RECURSIVE CodeSum(_, _, _)
\* the sum of a column over the order lines of code c, whatever their name
CodeSum(rows, c, column) ==
    IF rows = <<>> THEN 0
    ELSE (IF rows[1].code = c
          THEN (IF column = "quantity" THEN rows[1].quantity ELSE rows[1].total)
          ELSE 0)
           + CodeSum(Tail(rows), c, column)

\* C5: right after update_sales_from_orders has returned, every code with
\* order lines has one sales row whose total_quantity and total_revenue are
\* the sums over all order lines of that code, under whatever names, and a
\* code without order lines has no sales row
C5_RebuildMatchesLedger ==
    (lastOp.name = "rebuild" /\ ~lastOp.raised)
      => \A c \in ProductCodes :
           LET rows == {i \in 1..Len(sales) : sales[i].code = c}
           IN  IF \E i \in 1..Len(order_items) : order_items[i].code = c
               THEN /\ Cardinality(rows) = 1
                    /\ \A i \in rows :
                         /\ sales[i].total_quantity = CodeSum(order_items, c, "quantity")
                         /\ sales[i].total_revenue = CodeSum(order_items, c, "total")
               ELSE rows = {}

\* C6: an import run in which save_order failed for some files creates
\* orders for the other files it reached and for none of the failed ones,
\* with or without a key, and returns the number of those other files
C6_FailedFileIsSkipped ==
    [][(Ran("import") /\ lastOp'.failed # {})
         => LET saved == Attempted(DB, receipts) \ lastOp'.failed
            IN  /\ {o.receipt_filename : o \in orders' \ orders} = saved
                /\ Cardinality(orders' \ orders) = Cardinality(saved)
                /\ lastOp'.ret = Cardinality(saved)]_vars

\* C7: an import run raises nothing, whatever the files hold, and leaves an
\* order for every file of the directory it can import
C7_ParsingNeverRaises ==
    [][Ran("import")
         => /\ ~lastOp'.raised
            /\ \A f \in Attempted(DB, receipts) :
                 \E o \in orders' : o.receipt_filename = f]_vars

\* C8: the number an import run returns is the number of files for which
\* the run created an order holding the file name as its key
C8_CountIsKeyedOrders ==
    [][(Ran("import") /\ ~lastOp'.raised)
         => lastOp'.ret =
              Cardinality({f \in FileNames :
                             \E o \in orders' \ orders : o.receipt_filename = f})]_vars

\* C9: no two orders hold the same non-null receipt_filename, on a fresh
\* store and on a migrated one
C9_KeyUnique ==
    \A o1, o2 \in orders :
      (o1.receipt_filename # NULL /\ o1.receipt_filename = o2.receipt_filename)
        => o1 = o2

\* C10: every order a step creates has an order_id greater than every
\* order_id an order has held before, deleted or not, and no two orders
\* share an order_id
C10_OrderIdMonotonic ==
    [][/\ \A o \in orders' \ orders : \A i \in issued : o.order_id > i
       /\ \A o1, o2 \in orders' : o1.order_id = o2.order_id => o1 = o2]_vars

\* an order was created after the order of a smaller id had been deleted
C10_Witness ==
    /\ lastOp.name \in {"save_order", "save_receipt", "import"}
    /\ ~lastOp.raised
    /\ \E o \in orders : \E i \in issued :
         /\ i < o.order_id
         /\ \A p \in orders : p.order_id # i

\* C11: every row of order_items carries the order_id of a row of orders,
\* also in the states an operation leaves when one of its statements failed
C11_NoLineWithoutOrder ==
    \A i \in 1..Len(order_items) :
      \E o \in orders : o.order_id = order_items[i].order_id

\* the keys delete_imported_receipts is called with: the .txt names of the
\* directory
DeleteKeys == {f \in Listed(receipts) : IsTxt(f)}

\* the order of a line holds one of the keys
LineOfKey(line, keys) ==
    \E o \in orders : o.order_id = line.order_id /\ o.receipt_filename \in keys

\* C12: a delete_imported_receipts call that returns has removed the orders
\* holding one of its keys and the lines of those orders, and nothing else;
\* one that raises has removed nothing
C12_DeleteExactlyKeyed ==
    [][Ran("delete")
         => IF lastOp'.raised
            THEN /\ orders' = orders
                 /\ order_items' = order_items
            ELSE /\ orders' = {o \in orders : o.receipt_filename \notin DeleteKeys}
                 /\ order_items' =
                      SelectSeq(order_items, LAMBDA l : ~LineOfKey(l, DeleteKeys))]_vars

\* a delete has removed orders and left an order with another key, or with
\* none, and its lines
C12_Witness ==
    /\ lastOp.name = "delete"
    /\ ~lastOp.raised
    /\ lastOp.ret > 0
    /\ orders # {}
    /\ order_items # <<>>
    /\ C11_NoLineWithoutOrder

\* C13: a delete_imported_receipts call that returns, returns the number of
\* orders it removed; with no order holding one of its keys it raises
\* nothing and returns 0; a call that directly follows a call that returned
\* returns 0 and leaves every table as it was
C13_DeleteCountsOrders ==
    [][Ran("delete")
         => /\ ~lastOp'.raised
                => lastOp'.ret = Cardinality(orders) - Cardinality(orders')
            /\ (\A o \in orders : o.receipt_filename \notin DeleteKeys)
                => ~lastOp'.raised /\ lastOp'.ret = 0
            /\ (lastOp.name = "delete" /\ ~lastOp.raised)
                => /\ ~lastOp'.raised /\ lastOp'.ret = 0
                   /\ UNCHANGED <<orders, order_items, sales, seq_orders>>]_vars

\* a delete has removed the two imported orders and returned 2
C13_Witness ==
    /\ lastOp.name = "delete"
    /\ ~lastOp.raised
    /\ lastOp.ret = 2
    /\ \A o \in orders : o.receipt_filename \notin DeleteKeys

\* C14: a save_order or save_receipt call whose aggregate update fails, at
\* one line or as a whole, raises nothing, returns the order_id of an order
\* of the ledger and leaves every line of that order in order_items
C14_AggregateFailureKeepsOrder ==
    [][((Ran("save_order") \/ Ran("save_receipt"))
          /\ lastOp'.stage \in {"sales", "sales_commit"})
         => /\ ~lastOp'.raised
            /\ \E o \in orders' : o.order_id = lastOp'.ret
            /\ \E a \in ArgPool :
                 order_items' = InsertItems(order_items, lastOp'.ret,
                                            a.items, Len(a.items))]_vars

\* the aggregate update of a save_order call failed as a whole: its order
\* and line are in the ledger and no sales row was written
C14_Witness ==
    /\ lastOp.name = "save_order"
    /\ lastOp.stage = "sales_commit"
    /\ ~lastOp.raised
    /\ \E o \in orders : o.order_id = lastOp.ret
    /\ \E i \in 1..Len(order_items) : order_items[i].order_id = lastOp.ret
    /\ sales = <<>>

\* the rows of a sales table that carry code c
RowsOfCode(rows, c) == {rows[i] : i \in {j \in 1..Len(rows) : rows[j].code = c}}

\* table new is table old after the lines were applied at time when: a code
\* without a line keeps its row; a code with lines has one row, its totals
\* raised by the sums over those lines, or starting from 0 with the name of
\* the first of them, and last_sold = when
Applied(old, lines, when, new) ==
    /\ Len(new) = Cardinality({new[i].code : i \in 1..Len(new)})
    /\ \A c \in ProductCodes :
         LET was == RowsOfCode(old, c)
             hits == {i \in 1..Len(lines) : lines[i].code = c}
             first == CHOOSE i \in hits : \A j \in hits : i <= j
         IN  IF hits = {} THEN RowsOfCode(new, c) = was
             ELSE \E r \in RowsOfCode(new, c) :
                    /\ RowsOfCode(new, c) = {r}
                    /\ r.last_sold = when
                    /\ IF was = {}
                       THEN /\ r.name = lines[first].name
                            /\ r.total_quantity = CodeSum(lines, c, "quantity")
                            /\ r.total_revenue = CodeSum(lines, c, "total")
                       ELSE \E w \in was :
                              /\ r.name = w.name
                              /\ r.total_quantity =
                                   w.total_quantity + CodeSum(lines, c, "quantity")
                              /\ r.total_revenue =
                                   w.total_revenue + CodeSum(lines, c, "total")

\* C15: on every sales table and for every list of lines, _increment_sales
\* creates the row of a code at its first line, adds every further line of
\* the code to it, stamps it with `when`, and leaves the rows of the codes
\* without a line as they were
C15_IncrementUpserts ==
    \A lines \in Batches :
      Applied(sales, lines, now, increment_sales(sales, lines, now, NoFault))

\* a call at a later time has raised the row of AR and left the row of SR
\* with its older stamp
C15_Witness ==
    /\ lastOp.name = "increment"
    /\ \E r \in RowsOfCode(sales, "AR") : r.last_sold = 2 /\ r.total_quantity >= 2
    /\ \E r \in RowsOfCode(sales, "SR") : r.last_sold = 1

\* the lines without line k
Without(lines, k) == SubSeq(lines, 1, k - 1) \o SubSeq(lines, k + 1, Len(lines))

\* C16: when the statement of line k of a list raises inside
\* _increment_sales, the table is left as if the list without line k had been
\* applied: the lines before and after k are applied and committed
C16_FailedLineSkippedAlone ==
    \A lines \in Batches : \A k \in 1..Len(lines) :
      Applied(sales, Without(lines, k), now,
              increment_sales(sales, lines, now, <<"sales", k>>))

\* a call with two lines met a fault at its AR line: the SR line alone is
\* in the table
C16_Witness ==
    /\ lastOp.name = "increment"
    /\ lastOp.stage = "sales"
    /\ lastOp.ret = 2
    /\ Len(sales) = 1
    /\ sales[1].code = "SR"
    /\ sales[1].total_quantity = 1

\* C17: right after update_sales_from_orders has returned, the number it
\* returned is the number of rows of sales, which is the number of codes of
\* the order lines, also when a code has lines under several names
C17_RebuildCountsCodes ==
    (lastOp.name = "rebuild" /\ ~lastOp.raised)
      => /\ lastOp.ret = Len(sales)
         /\ lastOp.ret =
              Cardinality({order_items[i].code : i \in 1..Len(order_items)})

\* the position of the order of this id in a listing
PlaceOf(listing, order_id) ==
    CHOOSE i \in 1..Len(listing) : listing[i].order_id = order_id

\* C18: after every step, fetch_receipts lists every order once and no
\* other, each with the lines of order_items that carry its order_id, in
\* their order, and an order the step created stands before every order
\* that existed before the step
C18_ListOrdersNewestFirst ==
    [][LET listing == fetch_receipts([orders |-> orders',
                                      order_items |-> order_items'])
       IN  /\ Len(listing) = Cardinality(orders')
           /\ \A o \in orders' :
                \E i \in 1..Len(listing) :
                  /\ [f \in DOMAIN o |-> listing[i][f]] = o
                  /\ listing[i].items =
                       ItemsOf([order_items |-> order_items'], o.order_id)
                  /\ Len(listing[i].items) =
                       Cardinality({j \in 1..Len(order_items') :
                                      order_items'[j].order_id = o.order_id})
           /\ \A new \in orders' \ orders : \A old \in orders' \cap orders :
                PlaceOf(listing, new.order_id) < PlaceOf(listing, old.order_id)]_vars

\* the listing holds the order created last, with its two lines, before the
\* order created first, with its one line
C18_Witness ==
    /\ Cardinality(orders) = 2
    /\ Len(fetch_receipts(DB)) = 2
    /\ fetch_receipts(DB)[1].order_id = lastOp.ret
    /\ lastOp.name \in {"save_order", "save_receipt"}
    /\ Len(fetch_receipts(DB)[1].items) = 2
    /\ Len(fetch_receipts(DB)[2].items) = 1

\* C19: in every state fetch_sales lists every row of sales once and no
\* other, and no row stands before a row of greater total_revenue
C19_ListAggregatesByRevenue ==
    LET listing == fetch_sales(DB)
    IN  /\ Len(listing) = Len(sales)
        /\ \A i \in 1..Len(sales) :
             Cardinality({j \in 1..Len(listing) : listing[j] = sales[i]}) = 1
        /\ \A j, k \in 1..Len(listing) :
             j < k => listing[j].total_revenue >= listing[k].total_revenue

\* the row inserted second earns more than the row inserted first and is
\* listed first
C19_Witness ==
    /\ Len(sales) = 2
    /\ sales[1].total_revenue < sales[2].total_revenue
    /\ fetch_sales(DB) = <<sales[2], sales[1]>>

RECURSIVE LineTotalSum(_, _)
\* the sum of total over the order lines of one order
LineTotalSum(rows, order_id) ==
    IF rows = <<>> THEN 0
    ELSE (IF rows[1].order_id = order_id THEN rows[1].total ELSE 0)
           + LineTotalSum(Tail(rows), order_id)

\* the places of the Subtotal lines among lines from..Len(lines)
SubtotalsFrom(lines, from) ==
    {i \in 1..Len(lines) : i >= from /\ lines[i].kind = "Subtotal:"}

\* total is the number of some Subtotal line of the file when the file has
\* one, and the sum of the item lines otherwise
TotalOfAnySubtotal(lines, total, sum) ==
    IF SubtotalsFrom(lines, 1) # {}
    THEN \E i \in SubtotalsFrom(lines, 1) :
           ScalarValue(lines[i]).set /\ total = ScalarValue(lines[i]).v
    ELSE total = sum

\* total is the number of the first Subtotal line among the last TailWindow
\* lines when there is one and its number parses, and the sum of the item
\* lines otherwise
TotalOfTrailingSubtotal(lines, total, sum) ==
    LET subs == SubtotalsFrom(lines, Len(lines) - TailWindow + 1)
        first == CHOOSE i \in subs : \A j \in subs : i <= j
    IN  IF subs # {} /\ ScalarValue(lines[first]).set
        THEN total = ScalarValue(lines[first]).v
        ELSE total = sum

\* file contents beside those of the directories: a Subtotal line tenth and
\* eleventh from the end, and one with a malformed number
TotalsPool ==
    {<<ItemLine(<<"1">>, "Adobo", "AR", "", <<"5">>, "", <<"5">>),
       ScalarLine("Subtotal:", <<"7">>),
       OtherLine, OtherLine, OtherLine, OtherLine, OtherLine,
       OtherLine, OtherLine, OtherLine, OtherLine>>,
     <<ItemLine(<<"1">>, "Adobo", "AR", "", <<"5">>, "", <<"5">>),
       ScalarLine("Subtotal:", <<"7">>),
       OtherLine, OtherLine, OtherLine, OtherLine, OtherLine,
       OtherLine, OtherLine, OtherLine, OtherLine, OtherLine>>,
     <<ItemLine(<<"2">>, "Adobo", "AR", "P", <<"5">>, "P", <<"1", "0">>),
       ItemLine(<<"1">>, "Siomai", "SR", "", <<"3">>, "", <<"3">>),
       ScalarLine("Subtotal:", <<"P", ",">>)>>}

\* C20 as stated: the total of every order an import run creates for a file
\* is the number of a Subtotal line of the file when the file has one, and
\* otherwise the sum of the totals of the order's lines
C20_TotalIsSubtotalOrSum ==
    [][Ran("import")
         => \A o \in orders' \ orders :
              o.receipt_filename \in FileNames
                => TotalOfAnySubtotal(Content(receipts[o.receipt_filename]), o.total,
                                      LineTotalSum(order_items', o.order_id))]_vars

\* C20, with the Subtotal line looked for among the last TailWindow lines:
\* the total of every order an import run creates for a file is the number
\* of the first Subtotal line among those lines when it parses, and
\* otherwise the sum of the totals of the order's lines; the parse of the
\* further file contents resolves the total the same way
C20_TotalFromTrailingSubtotal ==
    [][Ran("import")
         => /\ \A o \in orders' \ orders :
                 o.receipt_filename \in FileNames
                   => TotalOfTrailingSubtotal(
                        Content(receipts[o.receipt_filename]), o.total,
                        LineTotalSum(order_items', o.order_id))
            /\ \A lines \in TotalsPool :
                 /\ ~ParseRaises(lines)
                 /\ TotalOfTrailingSubtotal(lines, ParseReceipt(lines).total,
                                            SumTotals(ParseReceipt(lines).items))]_vars

\* an import has created, for a file whose Subtotal 9.00 stands before the
\* last ten lines, an order whose total is the sum 3.00 of its line, and for
\* a file with two trailing Subtotal lines an order with the first, 7.00
C20_Witness ==
    /\ lastOp.name = "import"
    /\ receipts = Dir("long", "twice")
    /\ \E o \in orders :
         /\ o.receipt_filename = "a.txt"
         /\ o.total = 300
         /\ LineTotalSum(order_items, o.order_id) = 300
    /\ \E o \in orders : o.receipt_filename = "b.txt" /\ o.total = 700

\* the number of the first line with this prefix among the last TailWindow
\* lines, unset when there is no such line or its number is malformed
TrailingValue(lines, prefix) ==
    LET at == {i \in 1..Len(lines) :
                 i >= Len(lines) - TailWindow + 1 /\ lines[i].kind = prefix}
        first == CHOOSE i \in at : \A j \in at : i <= j
    IN  IF at = {} THEN Unset ELSE ScalarValue(lines[first])

\* paid and change as resolved from the Paid and Change values of lines
PaidChangeResolved(lines, total, paid, change) ==
    LET p == TrailingValue(lines, "Paid:")
        c == TrailingValue(lines, "Change:")
    IN  /\ paid = IF p.set THEN p.v ELSE total
        /\ change = IF c.set THEN c.v ELSE paid - total
        /\ (\A i \in 1..Len(lines) : lines[i].kind \notin {"Paid:", "Change:"})
             => paid = total /\ change = 0

\* file contents beside those of the directories: Paid alone, Change alone,
\* a malformed Paid with a negative Change, and a Paid line before the last
\* ten lines
PaidPool ==
    {<<ItemLine(<<"1">>, "Adobo", "AR", "", <<"5">>, "", <<"5">>),
       ScalarLine("Paid:", <<"P", "1", "0", ".", "0", "0">>)>>,
     <<ItemLine(<<"1">>, "Adobo", "AR", "", <<"5">>, "", <<"5">>),
       ScalarLine("Change:", <<"2">>)>>,
     <<ItemLine(<<"1">>, "Adobo", "AR", "", <<"5">>, "", <<"5">>),
       ScalarLine("Paid:", <<"P", ",">>),
       ScalarLine("Change:", <<"P", "-", "1", ".", "5", "0">>)>>,
     <<ScalarLine("Paid:", <<"9">>),
       ItemLine(<<"1">>, "Adobo", "AR", "", <<"5">>, "", <<"5">>),
       OtherLine, OtherLine, OtherLine, OtherLine, OtherLine,
       OtherLine, OtherLine, OtherLine, OtherLine, OtherLine>>}

\* C21: the paid of every order an import run creates for a file is the
\* Paid value parsed from the file when there is one and the order's total
\* otherwise, its change is the parsed Change value when there is one and
\* paid - total otherwise, and a file without Paid and Change lines gives
\* paid = total and change = 0; the parse of the further file contents
\* resolves paid and change the same way
C21_PaidAndChangeResolved ==
    [][Ran("import")
         => /\ \A o \in orders' \ orders :
                 o.receipt_filename \in FileNames
                   => PaidChangeResolved(Content(receipts[o.receipt_filename]),
                                         o.total, o.paid, o.change)
            /\ \A lines \in PaidPool :
                 /\ ~ParseRaises(lines)
                 /\ PaidChangeResolved(lines, ParseReceipt(lines).total,
                                       ParseReceipt(lines).paid,
                                       ParseReceipt(lines).change)]_vars

\* an import has created an order with the Paid 15.00 and Change 5.00 of its
\* file, and one for a file of a single item line with paid = total = 3.00
\* and change 0
C21_Witness ==
    /\ lastOp.name = "import"
    /\ receipts = Dir("good", "bare")
    /\ \E o \in orders :
         /\ o.receipt_filename = "a.txt"
         /\ o.total = 1000 /\ o.paid = 1500 /\ o.change = 500
    /\ \E o \in orders :
         /\ o.receipt_filename = "b.txt"
         /\ o.total = 300 /\ o.paid = 300 /\ o.change = 0

\* the readable .txt files of the directory none of whose lines matches
\* the item-line grammar
Itemless(dir) ==
    {f \in Listed(dir) :
       /\ IsTxt(f)
       /\ dir[f] \in ReadableKinds
       /\ \A i \in 1..Len(Content(dir[f])) : ~ItemMatches(Content(dir[f])[i])}

\* C22: an import run creates no order for a file without a line of the
\* item-line grammar and does not count it: the run returns no more than
\* the number of the other .txt files, and when no other .txt file can be
\* imported it returns 0 and leaves orders, lines and aggregates as they
\* were; every order the run creates has a line
C22_ItemlessFileSkipped ==
    [][Ran("import") /\ ~lastOp'.raised
         => /\ \A o \in orders' \ orders : o.receipt_filename \notin Itemless(receipts)
            /\ lastOp'.ret <= Cardinality({f \in Listed(receipts) : IsTxt(f)}
                                            \ Itemless(receipts))
            /\ (\A f \in Listed(receipts) :
                  IsTxt(f) => \/ f \in Itemless(receipts)
                              \/ receipts[f] = "unreadable"
                              \/ Held(f))
                 => /\ lastOp'.ret = 0
                    /\ UNCHANGED <<orders, order_items, sales>>
            /\ \A o \in orders' \ orders :
                 \E i \in 1..Len(order_items') : order_items'[i].order_id = o.order_id]_vars

\* an import has run over a directory whose one readable .txt file holds a
\* Subtotal line and no item line, beside a store of one order saved without
\* a key, and has returned 0
C22_Witness ==
    /\ lastOp.name = "import"
    /\ ~lastOp.raised
    /\ lastOp.ret = 0
    /\ "a.txt" \in Itemless(receipts)
    /\ \E i \in 1..Len(Content(receipts["a.txt"])) :
         Content(receipts["a.txt"])[i].kind = "Subtotal:"
    /\ Cardinality(orders) = 1
    /\ \A o \in orders : o.receipt_filename = NULL
    /\ sales # <<>>

\* C23: an importer run over a path that names no directory returns 0, does
\* not raise, and leaves orders, order lines and aggregates as they were
C23_MissingDirectoryReturnsZero ==
    [][Ran("import_nodir")
         => /\ ~lastOp'.raised
            /\ lastOp'.ret = 0
            /\ UNCHANGED <<orders, order_items, sales, seq_orders>>]_vars

\* the importer has run over a path that names no directory, beside a
\* receipts directory that holds a file it would import and a store that
\* holds an order
C23_Witness ==
    /\ lastOp.name = "import_nodir"
    /\ lastOp.ret = 0
    /\ orders # {}
    /\ \E f \in Attempted(DB, receipts) : TRUE

\* C24: a purge run that deletes a row of any table has written the backup
\* file, and the backup holds the tables as they were before the first
\* DELETE; a run that finds no database file or cannot write the backup
\* deletes no row
C24_BackupBeforeDelete ==
    [][Ran("purge")
         => /\ (orders' # orders \/ order_items' # order_items \/ sales' # sales)
                 => /\ lastOp'.out.backed
                    /\ lastOp'.out.backup = DB
            /\ lastOp'.stage \in {"missing", "backup"}
                 => /\ ~lastOp'.out.backed
                    /\ UNCHANGED <<orders, order_items, sales>>]_vars

\* a purge has emptied a store that held an order with its line and an
\* aggregate row, and its backup holds them
C24_Witness ==
    /\ lastOp.name = "purge"
    /\ lastOp.out.backed
    /\ lastOp.out.backup.orders # {}
    /\ lastOp.out.backup.order_items # <<>>
    /\ lastOp.out.backup.sales # <<>>
    /\ orders = {} /\ order_items = <<>> /\ sales = <<>>

\* C25: after a purge run that completes, orders, order_items and sales are
\* empty, and for each of them the run reports the row count of the
\* backed-up state as the count before and 0 as the count after
C25_PurgeEmptiesAndReports ==
    [][Ran("purge") /\ ~lastOp'.raised
         => /\ orders' = {} /\ order_items' = <<>> /\ sales' = <<>>
            /\ \A k \in 1..Len(Tables) :
                 lastOp'.out.results[k] =
                   <<CountOf(lastOp'.out.backup, Tables[k]), 0>>]_vars

\* the names of the menu that hold parentheses
Parenthesised == {"Siomai (4pcs)"}

\* a well-formed order: every line with a quantity of at least 1 and a name
\* without parentheses (the amounts are whole cents)
WellFormed(args) ==
    /\ args.items # <<>>
    /\ \A i \in 1..Len(args.items) :
         /\ args.items[i].quantity >= 1
         /\ args.items[i].name \notin Parenthesised

\* C26: the receipt a checkout of a well-formed order writes parses, without
\* raising, to the lines of the order (code, name, quantity, unit price,
\* line total) in their order, to a Subtotal that is the sum of the line
\* totals, and to the Paid and Change of the checkout
C26_RoundTrip ==
    [][Ran("checkout") /\ WellFormed(lastOp'.args)
         => LET lines == written'[lastOp'.key]
                parsed == ParseReceipt(lines)
            IN  /\ ~ParseRaises(lines)
                /\ parsed.items = lastOp'.args.items
                /\ TrailingValue(lines, "Subtotal:") =
                     [set |-> TRUE, v |-> SumTotals(lastOp'.args.items)]
                /\ parsed.total = SumTotals(lastOp'.args.items)
                /\ TrailingValue(lines, "Paid:") = [set |-> TRUE, v |-> lastOp'.args.paid]
                /\ parsed.paid = lastOp'.args.paid
                /\ TrailingValue(lines, "Change:") =
                     [set |-> TRUE, v |-> lastOp'.args.change]
                /\ parsed.change = lastOp'.args.change]_vars

\* the checkout of 2 x Adobo Rice Bowl (AR) at 65.00 with paid 150.00 has
\* written a receipt that parses to that line, Subtotal 130.00, Paid 150.00
\* and Change 20.00
C26_Witness ==
    /\ lastOp.name = "checkout"
    /\ lastOp.args.paid = 15000
    /\ lastOp.key \in DOMAIN written
    /\ ParseReceipt(written[lastOp.key]).items =
         <<[code |-> "AR", name |-> "Adobo Rice Bowl", quantity |-> 2,
            price |-> 6500, total |-> 13000]>>
    /\ ParseReceipt(written[lastOp.key]).total = 13000
    /\ ParseReceipt(written[lastOp.key]).paid = 15000
    /\ ParseReceipt(written[lastOp.key]).change = 2000

\* the lines of order_items that carry this order_id
LinesOf(rows, order_id) == SelectSeq(rows, LAMBDA r : r.order_id = order_id)

\* C27: in every state, an order a checkout persisted (its key names a
\* receipt the till wrote) has a total equal to the Subtotal of that receipt
\* and to the sum of the totals of its lines, each of its lines has
\* total = price * quantity, and its change is paid - total
C27_CheckoutTotalsAgree ==
    \A o \in orders :
      o.receipt_filename \in DOMAIN written
        => /\ TrailingValue(written[o.receipt_filename], "Subtotal:") =
                [set |-> TRUE, v |-> o.total]
           /\ o.total = LineTotalSum(order_items, o.order_id)
           /\ \A i \in 1..Len(LinesOf(order_items, o.order_id)) :
                LinesOf(order_items, o.order_id)[i].total =
                  LinesOf(order_items, o.order_id)[i].price
                    * LinesOf(order_items, o.order_id)[i].quantity
           /\ o.change = o.paid - o.total

\* C28: in every state, every line of order_items has a quantity of at
\* least 1
C28_QuantityPositive ==
    \A i \in 1..Len(order_items) : order_items[i].quantity >= 1

\* some line of the order handed to save_order has a quantity that is no
\* positive integer
MalformedQuantity(args) ==
    \E i \in 1..Len(args.items) : args.items[i].quantity < 1

\* C29: a save_order call handed a line whose quantity is malformed raises
\* and leaves orders, order_items and sales as they were
C29_MalformedRejected ==
    [][Ran("checkout") /\ MalformedQuantity(lastOp'.args)
         => /\ lastOp'.raised
            /\ UNCHANGED <<orders, order_items, sales>>]_vars

CodeTotals(rows, c) ==
    {<<rows[i].total_quantity, rows[i].total_revenue>> :
       i \in {j \in 1..Len(rows) : rows[j].code = c}}

\* every code with order lines has one sales row that holds the sums over all
\* order lines of that code, and a code without order lines has none
SalesMatchLedger(items, rows) ==
    \A c \in ProductCodes :
      /\ Cardinality({j \in 1..Len(rows) : rows[j].code = c}) <= 1
      /\ CodeTotals(rows, c) =
           IF \E i \in 1..Len(items) : items[i].code = c
           THEN {<<CodeSum(items, c, "quantity"), CodeSum(items, c, "total")>>}
           ELSE {}

\* a save_order call that returns an order id keeps the aggregates equal to
\* the sums of the ledger
SaveKeepsMatch ==
    (Ran("save_order") /\ ~lastOp'.raised /\ SalesMatchLedger(order_items, sales))
      => SalesMatchLedger(order_items', sales')

\* a rebuild of aggregates that equal the sums of the ledger changes no total
RebuildKeepsTotals ==
    (Ran("rebuild") /\ ~lastOp'.raised /\ SalesMatchLedger(order_items, sales))
      => \A c \in ProductCodes : CodeTotals(sales', c) = CodeTotals(sales, c)

\* C31: on a store that has seen only save_order calls that returned an order
\* id, the total_quantity and total_revenue of every code equal the sums over
\* the order lines of that code, and update_sales_from_orders run at that point
\* changes no total
C31_AggregatesReconstructible ==
    [][SaveKeepsMatch /\ RebuildKeepsTotals]_vars

\* the rows a checkout should add for order o: the lines of its cart
CartRows(o, lines) == [i \in 1..Len(lines) |-> ItemRow(o.order_id, lines[i])]

\* a checkout has run to its end in this step
CheckedOut == lastOp'.name \in {"checkout", "gui_checkout"} /\ now' = now

\* C32: every checkout that runs to its end adds exactly one order, whose
\* lines are the lines of the cart and whose receipt_filename is the name of
\* the receipt file the checkout wrote; also for a second checkout within one
\* second of the clock and when save_order raises
C32_CheckoutCreatesOneOrder ==
    [][CheckedOut
         => /\ lastOp'.key \in DOMAIN written'
            /\ \E o \in orders' \ orders :
                 /\ orders' = orders \cup {o}
                 /\ o.receipt_filename = lastOp'.key
                 /\ order_items' = order_items \o CartRows(o, lastOp'.args.items)]_vars

\* the sales rows count the lines exactly once
CountedOnce(lines, rows) ==
    \A i \in 1..Len(lines) :
      CodeTotals(rows, lines[i].code) =
        {<<CodeSum(lines, lines[i].code, "quantity"),
           CodeSum(lines, lines[i].code, "total")>>}

\* the checkout of the till has ended and no importer run is under way
Settled == cart = <<>> /\ till.pc = "idle" /\ importer.pc = "idle"

\* C33: whatever the interleaving of the checkout (the receipt file written,
\* then save_order keyed by its name) with importer runs over the same
\* directory, once both have ended the store holds exactly one order keyed by
\* the receipt file, order_items holds the lines of the checkout once, under
\* that order, and sales counts them once
C33_OneOrderPerReceipt ==
    (Settled /\ till.fname # "")
      => /\ Cardinality({o \in orders : o.receipt_filename = till.fname}) = 1
         /\ \A o \in orders :
              /\ o.receipt_filename = till.fname
              /\ order_items = CartRows(o, till.order.items)
         /\ CountedOnce(till.order.items, sales)

\* C34: a save_order call whose receipt_filename an order already holds
\* leaves every row of sales as it was
C34_HeldKeyNoIncrement ==
    [][(Ran("save_order") /\ lastOp'.key # NULL /\ Held(lastOp'.key))
         => sales' = sales]_vars

\* C35: on every sales table and for every list of lines, after
\* _increment_sales the row of a code that was in the table and has lines in
\* the list carries the name of the last of those lines, also when the row
\* stood under another name
C35_NameIsLastSold ==
    \A lines \in Batches :
      \A c \in ProductCodes :
        LET hits == {i \in 1..Len(lines) : lines[i].code = c}
            last == CHOOSE i \in hits : \A j \in hits : j <= i
        IN  (hits # {} /\ RowsOfCode(sales, c) # {})
              => \A r \in RowsOfCode(increment_sales(sales, lines, now, NoFault), c) :
                   r.name = lines[last].name

\* the date_time values of the orders that hold a line of code c
TimesOfCode(c) ==
    {OrderTime(DB, order_items[j].order_id) :
       j \in {k \in 1..Len(order_items) : order_items[k].code = c}}

\* C36: right after update_sales_from_orders has returned, the last_sold of
\* every sales row is the latest date_time among the orders that hold a line
\* of the row's code
C36_RebuildStampsLatest ==
    (lastOp.name = "rebuild" /\ ~lastOp.raised)
      => \A i \in 1..Len(sales) :
           /\ sales[i].last_sold \in TimesOfCode(sales[i].code)
           /\ \A t \in TimesOfCode(sales[i].code) : t <= sales[i].last_sold

\* C37: a delete_imported_receipts call, returning or raising, leaves every
\* row of sales as it was, so that after a call that removed orders the rows
\* still count the removed lines
C37_DeleteKeepsAggregates ==
    [][Ran("delete") => sales' = sales]_vars

\* a delete has removed orders, and a sales row counts more than the lines
\* left in order_items
C37_Witness ==
    /\ lastOp.name = "delete"
    /\ ~lastOp.raised
    /\ lastOp.ret > 0
    /\ \E i \in 1..Len(sales) :
         sales[i].total_quantity > CodeSum(order_items, sales[i].code, "quantity")

\* no two elements of a sequence of items, lines or rows carry the same code
OneLinePerCode(rows) ==
    \A i, j \in 1..Len(rows) : rows[i].code = rows[j].code => i = j

\* the item lines of a receipt file
FileItems(lines) == SelectSeq(lines, LAMBDA L : L.kind = "item")

\* the rows of order_items under one order
OrderRows(rows, id) == SelectSeq(rows, LAMBDA r : r.order_id = id)

\* this step is the command `add <code> [qty]` typed at the prompt
AddStep == lastOp'.name = "add" /\ till' = till /\ now' = now

\* an add of a code of the cart raises the quantity of its item by the amount
\* added and leaves the items, their places, names and prices as they were
AddMerges ==
    \A i \in 1..Len(cart) :
      cart[i].code = lastOp'.key
        => cart' = [cart EXCEPT ![i].qty = @ + lastOp'.ret]

\* the cart and every receipt file written from it have one line a code
CartOneLinePerCode ==
    /\ OneLinePerCode(cart)
    /\ \A f \in DOMAIN written : OneLinePerCode(FileItems(written[f]))

\* every recorded order has one line a code
OrdersOneLinePerCode ==
    \A o \in orders : OneLinePerCode(OrderRows(order_items, o.order_id))

\* C38: after any sequence of add, remove <index> and clear no two items of
\* the cart have the same code, an add of a code of the cart raises that
\* item's quantity by the amount added and keeps its place, name and price,
\* and so every rendered receipt and every recorded order has at most one
\* line a code
C38_OneLinePerCode ==
    [][/\ CartOneLinePerCode'
       /\ AddStep => AddMerges
       /\ OrdersOneLinePerCode']_vars

====
